---- MODULE Spec2Model ----
(***************************************************************************)
(* SynergySphere: the permission layer and the task / project-membership   *)
(* / user-administration state machine of the Django REST backend.         *)
(*                                                                         *)
(* One action per HTTP handler.  Every handler records the request it      *)
(* served and the HTTP status it answered in the variable `last`.          *)
(* Handlers and jobs that read and write in separate queries, and are run  *)
(* concurrently, are split into one action per query; `inflight` holds the *)
(* position and the local variables of each such run.                      *)
(***************************************************************************)
EXTENDS Integers, Sequences, FiniteSets, TLC

VARIABLES users, projects, members, tasks, last, notifications, outbox, inflight

vars == <<users, projects, members, tasks, last, notifications, outbox, inflight>>

\* the notification table, the mail handed to the mail server, the runs
\* under way
jobvars == <<notifications, outbox, inflight>>

----------------------------------------------------------------------------
(* Universe of identifiers                                                 *)

Users == {"u1", "u2", "u3"}
Projects == {"p1", "p2"}
Tasks == {"t1"}
NULL == "NULL"
\* a primary key no User row has
BadUserId == "u9"

USER_ROLE_CHOICES == {"member", "team_leader", "admin"}
ROLE_CHOICES == {"member", "manager", "admin"}
STATUS_CHOICES == {"todo", "in_progress", "review", "completed", "cancelled"}

\* HTTP status codes the handlers answer with
HTTP_200_OK == "200"
HTTP_201_CREATED == "201"
HTTP_204_NO_CONTENT == "204"
HTTP_400_BAD_REQUEST == "400"
HTTP_403_FORBIDDEN == "403"
HTTP_404_NOT_FOUND == "404"
\* an exception no handler catches (a database IntegrityError)
HTTP_500_SERVER_ERROR == "500"

Success == {HTTP_200_OK, HTTP_201_CREATED, HTTP_204_NO_CONTENT}
Denied == {HTTP_403_FORBIDDEN, HTTP_404_NOT_FOUND}

----------------------------------------------------------------------------
(* Rows                                                                    *)

User(role, active) ==
    [role |-> role, is_staff |-> (role = "admin"),
     is_superuser |-> (role = "admin"), is_active |-> active,
     email_notifications |-> TRUE]

NoProject ==
    [exists |-> FALSE, created_by |-> NULL, is_deleted |-> FALSE, progress |-> 0]

NoTask ==
    [exists |-> FALSE, project |-> NULL, assignee |-> NULL, status |-> "todo",
     title |-> "T1", created_by |-> NULL, updated_by |-> NULL,
     is_deleted |-> FALSE, completed_at |-> NULL]

\* ProjectMember field defaults (can_create_tasks is never written, left out)
NewMember(role, active) ==
    [role |-> role, is_active |-> active, can_edit_project |-> FALSE,
     can_manage_members |-> FALSE, can_delete_project |-> FALSE]

\* Notification rows: recipient, the flags the email job reads and writes,
\* read_at, and created_at as a position in time
Notifications == {"n1", "n2"}
NoNotification ==
    [exists |-> FALSE, recipient |-> NULL, is_read |-> FALSE, email_sent |-> FALSE,
     read_at |-> NULL, created_at |-> 0]

\* the processes that serve requests and run jobs side by side
Workers == {"w1", "w2"}
Idle == [pc |-> "idle"]

\* no notification stored, no mail sent, no run under way
Quiet ==
    /\ notifications = [n \in Notifications |-> NoNotification]
    /\ outbox = [n \in Notifications |-> 0]
    /\ inflight = [w \in Workers |-> Idle]

\* User.is_admin_user
is_admin_user(u) ==
    users[u].role = "admin" \/ users[u].is_staff \/ users[u].is_superuser

\* request.user.is_authenticated: a token is only issued to, and honoured
\* for, an active account
IsAuthenticated(a) == users[a].is_active

\* project.members.filter(user=u): the rows of (p, u), active or not
MemberRows(p, u) == members[<<p, u>>]

\* ProjectMember.objects.filter(project=p, user=u, is_active=True).exists()
HasActiveRow(p, u) ==
    \E i \in 1..Len(MemberRows(p, u)) : MemberRows(p, u)[i].is_active

----------------------------------------------------------------------------
(* The record every handler leaves in `last`                               *)

\* op, actor: the handler and request.user; obj: the task or project addressed;
\* target: the user a membership or administration request is about;
\* restricted: the payload names an admin-only task field; status_only: the
\* payload names no field but `status`; status: the status value sent;
\* project: the project value sent; created: get_or_create inserted a row
Resp(op, actor, obj, target, code, restricted, status_only, status, project, created) ==
    [op |-> op, actor |-> actor, obj |-> obj, target |-> target,
     code |-> code, restricted |-> restricted, status_only |-> status_only,
     status |-> status, project |-> project, created |-> created]

NoValue == "ABSENT"
NoRequest ==
    Resp("none", NULL, NULL, NULL, "none", FALSE, FALSE, NoValue, NoValue, FALSE)

----------------------------------------------------------------------------
(* apps/common/admin_permissions.py                                        *)

\* a permission that lets every authenticated user through
IsAdminUser_AnyAuthenticated(a) == IsAuthenticated(a)

\* IsAdminUser.has_permission
IsAdminUser_has_permission(a) ==
    IsAuthenticated(a) /\ users[a].role = "admin"

\* an assignee check that only looks for `status` in the payload
IsAdminOrTaskOwner_StatusPresent(a, method, fields, t) ==
    \/ users[a].role = "admin"
    \/ method \in {"PUT", "PATCH"} /\ tasks[t].assignee = a /\ "status" \in fields

\* IsAdminOrTaskOwner.has_object_permission for a Task object
IsAdminOrTaskOwner_has_object_permission(a, method, fields, t) ==
    IF users[a].role = "admin" THEN TRUE
    ELSE IF method \in {"PUT", "PATCH"}
         THEN IF tasks[t].assignee = a
              THEN fields \subseteq {"status"}
              ELSE FALSE
         ELSE IF method = "GET"
              THEN tasks[t].assignee = a
                   \/ MemberRows(tasks[t].project, a) # <<>>
              ELSE FALSE

----------------------------------------------------------------------------
(* apps/tasks: requests                                                    *)

FieldNames == {"status", "title", "assignee", "assignee_id", "project"}
\* Meta.read_only_fields among the fields a client may send
ReadOnlyFields == {"assignee", "project"}
AdminOnlyFields == {"assignee", "assignee_id", "project"}

Absent == NoValue
NewTitle == "T2"

\* a payload: the field set sent and the values of the fields that carry one
\* (the values of `title` and of the read-only `assignee` are not modelled)
TaskRequest(f, s, ai, p) ==
    [fields |-> f, status |-> s, assignee_id |-> ai, project |-> p]

\* every field set over F, each present field with every value offered for it
Payloads(F, statuses, assignee_ids, project_ids) ==
    { TaskRequest(f, s, ai, p) :
        f \in SUBSET F,
        s \in statuses \cup {Absent},
        ai \in assignee_ids \cup {Absent},
        p \in project_ids \cup {Absent} }

WellFormed(req) ==
    /\ ("status" \in req.fields) <=> (req.status # Absent)
    /\ ("assignee_id" \in req.fields) <=> (req.assignee_id # Absent)
    /\ ("project" \in req.fields) <=> (req.project # Absent)

\* a queryset whose admin branch forgets is_deleted=False
TaskViewSet_get_queryset_WithDeleted(a) ==
    IF users[a].role = "admin"
    THEN {t \in DOMAIN tasks : tasks[t].exists}
    ELSE {t \in DOMAIN tasks : /\ tasks[t].exists
                               /\ ~tasks[t].is_deleted
                               /\ \/ tasks[t].assignee = a
                                  \/ MemberRows(tasks[t].project, a) # <<>>}

\* TaskViewSet.get_queryset
TaskViewSet_get_queryset(a) ==
    IF users[a].role = "admin"
    THEN {t \in DOMAIN tasks : tasks[t].exists /\ ~tasks[t].is_deleted}
    ELSE {t \in DOMAIN tasks : /\ tasks[t].exists
                        /\ ~tasks[t].is_deleted
                        /\ \/ tasks[t].assignee = a
                           \/ MemberRows(tasks[t].project, a) # <<>>}

\* Serializer.to_internal_value: read-only fields are dropped from the input
WritableFields(req) == req.fields \ ReadOnlyFields

\* field-level validation: status is a ChoiceField, title is required unless
\* the update is partial
FieldErrors(req, partial) ==
    \/ "status" \in req.fields /\ req.status \notin STATUS_CHOICES
    \/ ~partial /\ "title" \notin req.fields

\* TaskSerializer.validate on the validated (writable) data; TRUE = it raises
TaskSerializer_validate(a, req) ==
    LET data == WritableFields(req) IN
    \/ ~is_admin_user(a) /\ (data \cap {"assignee_id", "project"}) # {}
    \/ "status" \in data /\ req.status \notin STATUS_CHOICES
    \/ /\ "assignee_id" \in data
       /\ \/ ~is_admin_user(a)
          \/ req.assignee_id # NULL /\ req.assignee_id \notin Users

\* TaskSerializer.update (the second definition, which replaces the first)
\* followed by serializer.save(updated_by=request.user)
TaskSerializer_update(a, t, req) ==
    LET data == WritableFields(req)
        t1 == IF "assignee_id" \in data /\ req.assignee_id # NULL
                 /\ is_admin_user(a)
              THEN [tasks[t] EXCEPT !.assignee = req.assignee_id]
              ELSE tasks[t]
        t2 == IF "status" \in data THEN [t1 EXCEPT !.status = req.status] ELSE t1
        t3 == IF "title" \in data THEN [t2 EXCEPT !.title = NewTitle] ELSE t2
    IN [t3 EXCEPT !.updated_by = a]

\* what a handler records about the payload
Restricted(req) == (req.fields \cap AdminOnlyFields) # {}
StatusOnly(req) == req.fields \subseteq {"status"}

\* PUT /tasks/{id}/ (update) and PATCH /tasks/{id}/ (partial_update):
\* get_permissions, get_object, check_object_permissions, is_valid,
\* perform_update
TaskUpdate(a, t, method, req) ==
    LET op == IF method = "PUT" THEN "update" ELSE "partial_update"
        code ==
          IF t \notin TaskViewSet_get_queryset(a) THEN HTTP_404_NOT_FOUND
          ELSE IF ~IsAdminOrTaskOwner_has_object_permission(a, method, req.fields, t)
               THEN HTTP_403_FORBIDDEN
          ELSE IF FieldErrors(req, method = "PATCH") \/ TaskSerializer_validate(a, req)
               THEN HTTP_400_BAD_REQUEST
          ELSE HTTP_200_OK
    IN /\ IsAuthenticated(a)
       /\ tasks' = IF code = HTTP_200_OK
                   THEN [tasks EXCEPT ![t] = TaskSerializer_update(a, t, req)]
                   ELSE tasks
       /\ UNCHANGED jobvars
       /\ last' = Resp(op, a, t, NULL, code, Restricted(req), StatusOnly(req),
                       req.status, req.project, FALSE)
       /\ UNCHANGED <<users, projects, members>>

\* an update_status that refuses to leave completed or cancelled
update_status_TerminalLock(a, t, new_status) ==
    LET code ==
          IF t \notin TaskViewSet_get_queryset(a) THEN HTTP_404_NOT_FOUND
          ELSE IF users[a].role # "admin" /\ tasks[t].assignee # a
               THEN HTTP_403_FORBIDDEN
          ELSE IF new_status = Absent THEN HTTP_400_BAD_REQUEST
          ELSE IF tasks[t].status \in {"completed", "cancelled"}
               THEN HTTP_400_BAD_REQUEST
          ELSE HTTP_200_OK
    IN /\ IsAuthenticated(a)
       /\ tasks' = IF code = HTTP_200_OK
                   THEN [tasks EXCEPT ![t].status = new_status]
                   ELSE tasks
       /\ UNCHANGED jobvars
       /\ last' = Resp("update_status", a, t, NULL, code, FALSE, TRUE, new_status,
                       NoValue, FALSE)
       /\ UNCHANGED <<users, projects, members>>

\* update_status without its assignee check
update_status_NoAssigneeCheck(a, t, new_status) ==
    LET code ==
          IF t \notin TaskViewSet_get_queryset(a) THEN HTTP_404_NOT_FOUND
          ELSE IF new_status = Absent THEN HTTP_400_BAD_REQUEST
          ELSE HTTP_200_OK
    IN /\ IsAuthenticated(a)
       /\ tasks' = IF code = HTTP_200_OK
                   THEN [tasks EXCEPT ![t].status = new_status]
                   ELSE tasks
       /\ UNCHANGED jobvars
       /\ last' = Resp("update_status", a, t, NULL, code, FALSE, TRUE, new_status,
                       NoValue, FALSE)
       /\ UNCHANGED <<users, projects, members>>

\* PATCH /tasks/{id}/update_status/ : only request.data.get('status') is read
update_status(a, t, new_status) ==
    LET code ==
          IF t \notin TaskViewSet_get_queryset(a) THEN HTTP_404_NOT_FOUND
          ELSE IF users[a].role # "admin" /\ tasks[t].assignee # a
               THEN HTTP_403_FORBIDDEN
          ELSE IF new_status = Absent THEN HTTP_400_BAD_REQUEST
          ELSE HTTP_200_OK
    IN /\ IsAuthenticated(a)
       /\ tasks' = IF code = HTTP_200_OK
                   THEN [tasks EXCEPT ![t].status = new_status]
                   ELSE tasks
       /\ UNCHANGED jobvars
       /\ last' = Resp("update_status", a, t, NULL, code, FALSE, TRUE, new_status,
                       NoValue, FALSE)
       /\ UNCHANGED <<users, projects, members>>

\* POST /tasks/ (create): IsAdminUser, is_valid, perform_create.  `project`
\* is read-only in the serializer, so Task.objects.create receives no project
\* and the NOT NULL foreign key makes the insert fail.
TaskCreate(a, req) ==
    LET code ==
          IF ~IsAdminUser_has_permission(a) THEN HTTP_403_FORBIDDEN
          ELSE IF FieldErrors(req, FALSE) \/ TaskSerializer_validate(a, req)
               THEN HTTP_400_BAD_REQUEST
          ELSE HTTP_500_SERVER_ERROR
    IN /\ IsAuthenticated(a)
       /\ tasks' = tasks
       /\ UNCHANGED jobvars
       /\ last' = Resp("create", a, NULL, NULL, code, Restricted(req),
                       StatusOnly(req), req.status, req.project, FALSE)
       /\ UNCHANGED <<users, projects, members>>

\* GET /tasks/{id}/ (retrieve): IsAuthenticated, get_object
TaskRetrieve(a, t) ==
    /\ IsAuthenticated(a)
    /\ UNCHANGED jobvars
    /\ last' = Resp("retrieve", a, t, NULL,
                    IF t \in TaskViewSet_get_queryset(a)
                    THEN HTTP_200_OK ELSE HTTP_404_NOT_FOUND,
                    FALSE, FALSE, NoValue, NoValue, FALSE)
    /\ UNCHANGED <<users, projects, members, tasks>>

\* DELETE /tasks/{id}/ (destroy): IsAdminUser, get_object, instance.delete()
TaskDestroy(a, t) ==
    LET code ==
          IF ~IsAdminUser_has_permission(a) THEN HTTP_403_FORBIDDEN
          ELSE IF t \notin TaskViewSet_get_queryset(a) THEN HTTP_404_NOT_FOUND
          ELSE HTTP_204_NO_CONTENT
    IN /\ IsAuthenticated(a)
       /\ tasks' = IF code = HTTP_204_NO_CONTENT
                   THEN [tasks EXCEPT ![t] = NoTask]
                   ELSE tasks
       /\ UNCHANGED jobvars
       /\ last' = Resp("destroy", a, t, NULL, code, FALSE, FALSE, NoValue,
                       NoValue, FALSE)
       /\ UNCHANGED <<users, projects, members>>

----------------------------------------------------------------------------
(* The task endpoints, over fixed users and a chosen membership            *)

OwnerRow == [NewMember("admin", TRUE) EXCEPT !.can_edit_project = TRUE,
               !.can_manage_members = TRUE, !.can_delete_project = TRUE]

\* the payloads the task endpoints are driven with
StatusInputs == {"completed", "bogus"}
AssigneeIdInputs == {"u3", BadUserId}
ProjectInputs == {"p2"}
UpdateRequests ==
    {r \in Payloads(FieldNames, StatusInputs, AssigneeIdInputs, ProjectInputs) :
        WellFormed(r)}
CreateRequests ==
    {r \in Payloads({"title", "status", "assignee_id"}, StatusInputs,
                    AssigneeIdInputs, {}) : WellFormed(r)}

InitTasks ==
    /\ users = [u \in Users |->
                  IF u = "u1" THEN User("admin", TRUE)
                  ELSE IF u = "u2" THEN User("member", TRUE)
                  ELSE User("team_leader", TRUE)]
    /\ projects = [p \in Projects |->
                     [NoProject EXCEPT !.exists = TRUE, !.created_by = "u1"]]
    /\ \E r3 \in {<<>>, <<NewMember("member", FALSE)>>} :
          members = [k \in Projects \X Users |->
                       IF k[2] = "u1" THEN <<OwnerRow>>
                       ELSE IF k = <<"p1", "u2">> THEN <<NewMember("member", TRUE)>>
                       ELSE IF k = <<"p1", "u3">> THEN r3
                       ELSE <<>>]
    /\ \E as \in {"u2", NULL} :
          tasks = [t \in Tasks |->
                     [NoTask EXCEPT !.exists = TRUE, !.project = "p1",
                                    !.assignee = as, !.created_by = "u1"]]
    /\ Quiet
    /\ last = NoRequest

NextTasks ==
    \/ \E a \in Users, t \in Tasks, m \in {"PUT", "PATCH"}, req \in UpdateRequests :
          TaskUpdate(a, t, m, req)
    \/ \E a \in Users, t \in Tasks, s \in StatusInputs \cup {Absent} :
          update_status(a, t, s)
    \/ \E a \in Users, req \in CreateRequests : TaskCreate(a, req)
    \/ \E a \in Users, t \in Tasks : TaskDestroy(a, t)

SpecTasks == InitTasks /\ [][NextTasks]_vars

----------------------------------------------------------------------------
(* apps/projects                                                           *)

\* ProjectMember.save: the capability flags are raised by role, then stored
ProjectMember_save(row) ==
    IF row.role = "admin"
    THEN [row EXCEPT !.can_edit_project = TRUE, !.can_manage_members = TRUE,
                     !.can_delete_project = TRUE]
    ELSE IF row.role = "manager"
         THEN [row EXCEPT !.can_edit_project = TRUE, !.can_manage_members = TRUE]
         ELSE row

\* ProjectViewSet.get_queryset
ProjectViewSet_get_queryset(a) ==
    {p \in Projects : /\ projects[p].exists
                       /\ ~projects[p].is_deleted
                       /\ MemberRows(p, a) # <<>>}

\* IsProjectMember.has_object_permission, for an object of project p
IsProjectMember_has_object_permission(a, p) == MemberRows(p, a) # <<>>

\* ProjectMemberViewSet.get_queryset: the (project, user, index) of the rows
ProjectMemberViewSet_get_queryset(a) ==
    {k \in Projects \X Users \X {1, 2} :
        /\ k[3] <= Len(MemberRows(k[1], k[2]))
        /\ MemberRows(k[1], k[2])[k[3]].is_active
        /\ MemberRows(k[1], a) # <<>>}

\* the index of the first active row of (p, u), 0 when there is none
ActiveIndex(p, u) ==
    IF HasActiveRow(p, u)
    THEN CHOOSE i \in 1..Len(MemberRows(p, u)) :
            /\ MemberRows(p, u)[i].is_active
            /\ \A j \in 1..(i - 1) : ~MemberRows(p, u)[j].is_active
    ELSE 0

Reply(op, a, obj, target, code) ==
    Resp(op, a, obj, target, code, FALSE, FALSE, NoValue, NoValue, FALSE)

\* a create that saves the project and adds no membership row
perform_create_NoMember(a, p) ==
    /\ IsAuthenticated(a)
    /\ ~projects[p].exists
    /\ projects' = [projects EXCEPT ![p] =
                      [NoProject EXCEPT !.exists = TRUE, !.created_by = a]]
    /\ UNCHANGED jobvars
    /\ last' = Reply("create_project", a, p, NULL, HTTP_201_CREATED)
    /\ UNCHANGED <<users, members, tasks>>

\* POST /projects/ : ProjectViewSet.perform_create
perform_create(a, p) ==
    /\ IsAuthenticated(a)
    /\ ~projects[p].exists
    /\ projects' = [projects EXCEPT ![p] =
                      [NoProject EXCEPT !.exists = TRUE, !.created_by = a]]
    /\ members' = [members EXCEPT ![<<p, a>>] =
                     <<ProjectMember_save(NewMember("admin", TRUE))>>]
    /\ UNCHANGED jobvars
    /\ last' = Reply("create_project", a, p, NULL, HTTP_201_CREATED)
    /\ UNCHANGED <<users, tasks>>

\* GET /projects/{id}/
ProjectRetrieve(a, p) ==
    /\ IsAuthenticated(a)
    /\ UNCHANGED jobvars
    /\ last' = Reply("retrieve_project", a, p, NULL,
                      IF p \in ProjectViewSet_get_queryset(a)
                      THEN HTTP_200_OK ELSE HTTP_404_NOT_FOUND)
    /\ UNCHANGED <<users, projects, members, tasks>>

\* DELETE /projects/{id}/ : ModelViewSet.destroy; the rows and the tasks of
\* the project go with it (on_delete=CASCADE)
ProjectDestroy(a, p) ==
    LET ok == p \in ProjectViewSet_get_queryset(a) IN
    /\ IsAuthenticated(a)
    /\ projects' = IF ok THEN [projects EXCEPT ![p] = NoProject] ELSE projects
    /\ members' = IF ok
                  THEN [k \in DOMAIN members |->
                          IF k[1] = p THEN <<>> ELSE members[k]]
                  ELSE members
    /\ tasks' = IF ok
                THEN [t \in DOMAIN tasks |->
                        IF tasks[t].project = p THEN NoTask ELSE tasks[t]]
                ELSE tasks
    /\ UNCHANGED jobvars
    /\ last' = Reply("destroy_project", a, p, NULL,
                      IF ok THEN HTTP_204_NO_CONTENT ELSE HTTP_404_NOT_FOUND)
    /\ UNCHANGED users

\* an insert that never looks for the existing row
get_or_create_AlwaysCreate(p, u, role) ==
    Append(MemberRows(p, u), ProjectMember_save(NewMember(role, TRUE)))

\* ProjectMember.objects.get_or_create(project, user, defaults) followed by
\* the reactivation of a row that was not created
get_or_create(p, u, role) ==
    IF MemberRows(p, u) = <<>>
    THEN <<ProjectMember_save(NewMember(role, TRUE))>>
    ELSE [MemberRows(p, u) EXCEPT ![1] =
            ProjectMember_save([@ EXCEPT !.is_active = TRUE, !.role = role])]

\* POST /projects/{id}/add_member/ ; u is the user of the email sent
\* (Absent: no email, BadUserId: no such user)
add_member(a, p, u, role) ==
    LET code ==
          IF p \notin ProjectViewSet_get_queryset(a) THEN HTTP_404_NOT_FOUND
          ELSE IF u = Absent THEN HTTP_400_BAD_REQUEST
          ELSE IF u \notin Users THEN HTTP_404_NOT_FOUND
          ELSE IF HasActiveRow(p, u) THEN HTTP_400_BAD_REQUEST
          ELSE HTTP_201_CREATED
    IN /\ IsAuthenticated(a)
       /\ members' = IF code = HTTP_201_CREATED
                     THEN [members EXCEPT ![<<p, u>>] = get_or_create(p, u, role)]
                     ELSE members
       /\ UNCHANGED jobvars
       /\ last' = [Reply("add_member", a, p, u, code) EXCEPT
                     !.created = (code = HTTP_201_CREATED /\ MemberRows(p, u) = <<>>)]
       /\ UNCHANGED <<users, projects, tasks>>

\* remove_member without its owner check
remove_member_NoOwnerCheck(a, p, u) ==
    LET code ==
          IF p \notin ProjectViewSet_get_queryset(a) THEN HTTP_404_NOT_FOUND
          ELSE IF u \notin Users \/ ~HasActiveRow(p, u) THEN HTTP_404_NOT_FOUND
          ELSE HTTP_200_OK
    IN /\ IsAuthenticated(a)
       /\ members' = IF code = HTTP_200_OK
                     THEN [members EXCEPT ![<<p, u>>][ActiveIndex(p, u)] =
                             ProjectMember_save([@ EXCEPT !.is_active = FALSE])]
                     ELSE members
       /\ UNCHANGED jobvars
       /\ last' = Reply("remove_member", a, p, u, code)
       /\ UNCHANGED <<users, projects, tasks>>

\* DELETE /projects/{id}/members/{member_id}/
remove_member(a, p, u) ==
    LET code ==
          IF p \notin ProjectViewSet_get_queryset(a) THEN HTTP_404_NOT_FOUND
          ELSE IF u \notin Users \/ ~HasActiveRow(p, u) THEN HTTP_404_NOT_FOUND
          ELSE IF u = projects[p].created_by THEN HTTP_400_BAD_REQUEST
          ELSE HTTP_200_OK
    IN /\ IsAuthenticated(a)
       /\ members' = IF code = HTTP_200_OK
                     THEN [members EXCEPT ![<<p, u>>][ActiveIndex(p, u)] =
                             ProjectMember_save([@ EXCEPT !.is_active = FALSE])]
                     ELSE members
       /\ UNCHANGED jobvars
       /\ last' = Reply("remove_member", a, p, u, code)
       /\ UNCHANGED <<users, projects, tasks>>

\* PUT/PATCH /projects/members/{id}/ : ProjectMemberViewSet with
\* ProjectMemberSerializer, whose writable fields are role and is_active
\* (role, active: the values sent, "true"/"false" for the boolean, or Absent)
MemberUpdate(a, p, u, i, role, active) ==
    LET code ==
          IF <<p, u, i>> \notin ProjectMemberViewSet_get_queryset(a)
          THEN HTTP_404_NOT_FOUND
          ELSE IF ~IsProjectMember_has_object_permission(a, p)
               THEN HTTP_403_FORBIDDEN
          ELSE IF role # Absent /\ role \notin ROLE_CHOICES
               THEN HTTP_400_BAD_REQUEST
          ELSE HTTP_200_OK
        r1 == MemberRows(p, u)[i]
        r2 == IF role # Absent THEN [r1 EXCEPT !.role = role] ELSE r1
        r3 == IF active # Absent THEN [r2 EXCEPT !.is_active = (active = "true")] ELSE r2
    IN /\ IsAuthenticated(a)
       /\ members' = IF code = HTTP_200_OK
                     THEN [members EXCEPT ![<<p, u>>][i] = ProjectMember_save(r3)]
                     ELSE members
       /\ UNCHANGED jobvars
       /\ last' = Reply("update_member", a, p, u, code)
       /\ UNCHANGED <<users, projects, tasks>>

\* the sequence s without its i-th element
RemoveAt(s, i) == [j \in 1..(Len(s) - 1) |-> IF j < i THEN s[j] ELSE s[j + 1]]

\* DELETE /projects/members/{id}/ : ModelViewSet.destroy
MemberDestroy(a, p, u, i) ==
    LET code ==
          IF <<p, u, i>> \notin ProjectMemberViewSet_get_queryset(a)
          THEN HTTP_404_NOT_FOUND
          ELSE IF ~IsProjectMember_has_object_permission(a, p)
               THEN HTTP_403_FORBIDDEN
          ELSE HTTP_204_NO_CONTENT
    IN /\ IsAuthenticated(a)
       /\ members' = IF code = HTTP_204_NO_CONTENT
                     THEN [members EXCEPT ![<<p, u>>] = RemoveAt(@, i)]
                     ELSE members
       /\ UNCHANGED jobvars
       /\ last' = Reply("destroy_member", a, p, u, code)
       /\ UNCHANGED <<users, projects, tasks>>

\* GET /projects/members/{id}/
MemberRetrieve(a, p, u, i) ==
    LET code ==
          IF <<p, u, i>> \notin ProjectMemberViewSet_get_queryset(a)
          THEN HTTP_404_NOT_FOUND
          ELSE IF ~IsProjectMember_has_object_permission(a, p)
               THEN HTTP_403_FORBIDDEN
          ELSE HTTP_200_OK
    IN /\ IsAuthenticated(a)
       /\ UNCHANGED jobvars
       /\ last' = Reply("retrieve_member", a, p, u, code)
       /\ UNCHANGED <<users, projects, members, tasks>>

----------------------------------------------------------------------------
(* The project and membership endpoints: one project, three users          *)

InitMembers ==
    /\ users = [u \in Users |->
                  IF u = "u1" THEN User("admin", TRUE) ELSE User("member", TRUE)]
    /\ projects = [p \in Projects |-> NoProject]
    /\ members = [k \in Projects \X Users |-> <<>>]
    /\ tasks = [t \in Tasks |-> NoTask]
    /\ Quiet
    /\ last = NoRequest

\* the project the membership endpoints are driven on, the users who create
\* it and are given memberships in it (u1, the platform admin, stays outside
\* the project), and the role values sent
MemberProjects == {"p1"}
MemberUsers == {"u2", "u3"}
RoleInputs == ROLE_CHOICES \cup {Absent}

NextMembers ==
    \/ \E a \in MemberUsers, p \in MemberProjects : perform_create(a, p)
    \/ \E a \in Users, p \in MemberProjects : ProjectRetrieve(a, p)
    \/ \E a \in Users, p \in MemberProjects : ProjectDestroy(a, p)
    \/ \E a \in Users, p \in MemberProjects,
          u \in MemberUsers \cup {Absent, BadUserId}, r \in ROLE_CHOICES :
          add_member(a, p, u, r)
    \/ \E a \in Users, p \in MemberProjects, u \in MemberUsers \cup {BadUserId} :
          remove_member(a, p, u)
    \/ \E a \in Users, p \in MemberProjects, u \in MemberUsers, r \in RoleInputs,
          act \in {"true", "false", Absent} : MemberUpdate(a, p, u, 1, r, act)
    \/ \E a \in Users, p \in MemberProjects, u \in MemberUsers :
          MemberDestroy(a, p, u, 1)
    \/ \E a \in Users, p \in MemberProjects, u \in MemberUsers :
          MemberRetrieve(a, p, u, 1)

SpecMembers == InitMembers /\ [][NextMembers]_vars

----------------------------------------------------------------------------
(* apps/users: the admin user-management endpoints                         *)

\* User.objects.filter(role='admin', is_active=True).count()
ActiveAdminCount ==
    Cardinality({u \in Users : users[u].role = "admin" /\ users[u].is_active})

\* User.objects.filter(role='admin').count()
AdminCount == Cardinality({u \in Users : users[u].role = "admin"})

\* a role change that leaves is_staff and is_superuser as they were
SetRole_KeepsFlags(u, role) == [users EXCEPT ![u].role = role]

SetRole(u, role) ==
    [users EXCEPT ![u].role = role, ![u].is_staff = (role = "admin"),
                  ![u].is_superuser = (role = "admin")]

\* a gate that lets every authenticated user through
AdminGate_NoAdminCheck(a, u) ==
    IF u \notin Users THEN HTTP_404_NOT_FOUND ELSE HTTP_200_OK

\* the code a handler answers before it looks at the target's fields
AdminGate(a, u) ==
    IF ~is_admin_user(a) THEN HTTP_403_FORBIDDEN
    ELSE IF u \notin Users THEN HTTP_404_NOT_FOUND
    ELSE HTTP_200_OK

\* AdminPromoteUserView.post reached through .../promote/
AdminPromote(a, u) ==
    LET code ==
          IF AdminGate(a, u) # HTTP_200_OK THEN AdminGate(a, u)
          ELSE IF users[u].role = "admin" THEN HTTP_400_BAD_REQUEST
          ELSE HTTP_200_OK
    IN /\ IsAuthenticated(a)
       /\ users' = IF code = HTTP_200_OK THEN SetRole(u, "admin") ELSE users
       /\ UNCHANGED jobvars
       /\ last' = Reply("promote", a, NULL, u, code)
       /\ UNCHANGED <<projects, members, tasks>>

\* a demote that counts the admin rows, active or not
AdminDemote_CountsInactive(a, u) ==
    LET code ==
          IF AdminGate(a, u) # HTTP_200_OK THEN AdminGate(a, u)
          ELSE IF users[u].role # "admin" THEN HTTP_400_BAD_REQUEST
          ELSE IF AdminCount <= 1 THEN HTTP_400_BAD_REQUEST
          ELSE HTTP_200_OK
    IN /\ IsAuthenticated(a)
       /\ users' = IF code = HTTP_200_OK THEN SetRole(u, "member") ELSE users
       /\ UNCHANGED jobvars
       /\ last' = Reply("demote", a, NULL, u, code)
       /\ UNCHANGED <<projects, members, tasks>>

\* AdminPromoteUserView.post reached through .../demote/
AdminDemote(a, u) ==
    LET code ==
          IF AdminGate(a, u) # HTTP_200_OK THEN AdminGate(a, u)
          ELSE IF users[u].role # "admin" THEN HTTP_400_BAD_REQUEST
          ELSE IF ActiveAdminCount <= 1 THEN HTTP_400_BAD_REQUEST
          ELSE HTTP_200_OK
    IN /\ IsAuthenticated(a)
       /\ users' = IF code = HTTP_200_OK THEN SetRole(u, "member") ELSE users
       /\ UNCHANGED jobvars
       /\ last' = Reply("demote", a, NULL, u, code)
       /\ UNCHANGED <<projects, members, tasks>>

\* AdminRemoveUserView.post (.../deactivate/)
AdminDeactivate(a, u) ==
    LET code ==
          IF AdminGate(a, u) # HTTP_200_OK THEN AdminGate(a, u)
          ELSE IF ~users[u].is_active THEN HTTP_400_BAD_REQUEST
          ELSE IF is_admin_user(u) /\ ActiveAdminCount <= 1
               THEN HTTP_400_BAD_REQUEST
          ELSE HTTP_200_OK
    IN /\ IsAuthenticated(a)
       /\ users' = IF code = HTTP_200_OK
                   THEN [users EXCEPT ![u].is_active = FALSE] ELSE users
       /\ UNCHANGED jobvars
       /\ last' = Reply("deactivate", a, NULL, u, code)
       /\ UNCHANGED <<projects, members, tasks>>

\* AdminActivateUserView.post (.../activate/)
AdminActivate(a, u) ==
    LET code ==
          IF AdminGate(a, u) # HTTP_200_OK THEN AdminGate(a, u)
          ELSE IF users[u].is_active THEN HTTP_400_BAD_REQUEST
          ELSE HTTP_200_OK
    IN /\ IsAuthenticated(a)
       /\ users' = IF code = HTTP_200_OK
                   THEN [users EXCEPT ![u].is_active = TRUE] ELSE users
       /\ UNCHANGED jobvars
       /\ last' = Reply("activate", a, NULL, u, code)
       /\ UNCHANGED <<projects, members, tasks>>

\* AdminUserManagementView.patch, given the pk of a user and the role sent
AdminPatchRole(a, u, new_role) ==
    LET code ==
          IF AdminGate(a, u) # HTTP_200_OK THEN AdminGate(a, u)
          ELSE IF new_role \notin USER_ROLE_CHOICES THEN HTTP_400_BAD_REQUEST
          ELSE HTTP_200_OK
    IN /\ IsAuthenticated(a)
       /\ users' = IF code = HTTP_200_OK THEN SetRole(u, new_role) ELSE users
       /\ UNCHANGED jobvars
       /\ last' = Reply("patch_role", a, NULL, u, code)
       /\ UNCHANGED <<projects, members, tasks>>

\* AdminUserManagementView.delete, given the pk of a user
AdminDelete(a, u) ==
    LET code ==
          IF AdminGate(a, u) # HTTP_200_OK THEN AdminGate(a, u)
          ELSE IF is_admin_user(u) /\ AdminCount <= 1 THEN HTTP_400_BAD_REQUEST
          ELSE HTTP_200_OK
    IN /\ IsAuthenticated(a)
       /\ users' = IF code = HTTP_200_OK
                   THEN [users EXCEPT ![u].is_active = FALSE] ELSE users
       /\ UNCHANGED jobvars
       /\ last' = Reply("delete_user", a, NULL, u, code)
       /\ UNCHANGED <<projects, members, tasks>>

\* AdminUserManagementView.get and AdminDashboardView.get
AdminRead(a, op) ==
    /\ IsAuthenticated(a)
    /\ UNCHANGED jobvars
    /\ last' = Reply(op, a, NULL, NULL,
                      IF is_admin_user(a) THEN HTTP_200_OK ELSE HTTP_403_FORBIDDEN)
    /\ UNCHANGED <<users, projects, members, tasks>>

----------------------------------------------------------------------------
(* The admin endpoints over three accounts, one of them the first admin    *)

InitUsers ==
    /\ users = [u \in Users |->
                  IF u = "u1" THEN User("admin", TRUE)
                  ELSE IF u = "u2" THEN User("member", TRUE)
                  ELSE User("team_leader", TRUE)]
    /\ projects = [p \in Projects |-> NoProject]
    /\ members = [k \in Projects \X Users |-> <<>>]
    /\ tasks = [t \in Tasks |-> NoTask]
    /\ Quiet
    /\ last = NoRequest

TargetIds == Users \cup {BadUserId}

NextUsers ==
    \/ \E a \in Users, u \in TargetIds : AdminPromote(a, u)
    \/ \E a \in Users, u \in TargetIds : AdminDemote(a, u)
    \/ \E a \in Users, u \in TargetIds : AdminDeactivate(a, u)
    \/ \E a \in Users, u \in TargetIds : AdminActivate(a, u)
    \/ \E a \in Users, u \in TargetIds,
          r \in USER_ROLE_CHOICES \cup {"owner"} : AdminPatchRole(a, u, r)
    \/ \E a \in Users, u \in TargetIds : AdminDelete(a, u)
    \/ \E a \in Users, op \in {"list_users", "dashboard"} : AdminRead(a, op)

SpecUsers == InitUsers /\ [][NextUsers]_vars

----------------------------------------------------------------------------
(* apps/common/tasks.py: update_project_progress                           *)

\* The job computes int((completed_tasks / total_tasks) * 100) in binary64
\* floating point: the quotient is rounded to 53 significant bits, the
\* product with 100 is rounded again, and int() truncates.  A significand is
\* kept as five limbs <<l1, .., l5>> of 13 bits, l1 the leading one:
\* value = (l1 * 2^52 + l2 * 2^39 + l3 * 2^26 + l4 * 2^13 + l5) * 2^(-52 - e).
LimbBase == 8192

RECURSIVE Pow2(_)
Pow2(n) == IF n = 0 THEN 1 ELSE 2 * Pow2(n - 1)

\* the e with 1 <= 2^e * c / t < 2, for 1 <= c <= t
Exponent(c, t) == CHOOSE e \in 0..20 : Pow2(e) * c >= t /\ (e = 0 \/ Pow2(e - 1) * c < t)

\* k further limbs of the quotient r / t by long division, and what remains
RECURSIVE DivLimbs(_, _, _)
DivLimbs(r, t, k) ==
    IF k = 0 THEN <<>>
    ELSE <<(r * LimbBase) \div t>> \o DivLimbs((r * LimbBase) % t, t, k - 1)

RECURSIVE DivRem(_, _, _)
DivRem(r, t, k) == IF k = 0 THEN r ELSE DivRem((r * LimbBase) % t, t, k - 1)

\* carry propagation from limb i up to the leading limb
RECURSIVE Carry(_, _)
Carry(l, i) ==
    IF i = 1 THEN l
    ELSE Carry([l EXCEPT ![i] = l[i] % LimbBase,
                         ![i - 1] = l[i - 1] + (l[i] \div LimbBase)], i - 1)

AddLow(l, v) == Carry([l EXCEPT ![5] = l[5] + v], 5)

\* completed_tasks / total_tasks: the 53-bit significand, round-half-even
FloatDiv(c, t) ==
    LET r0 == Pow2(Exponent(c, t)) * c - t
        m == <<1>> \o DivLimbs(r0, t, 4)
        r == DivRem(r0, t, 4)
    IN IF 2 * r > t \/ (2 * r = t /\ m[5] % 2 = 1) THEN AddLow(m, 1) ELSE m

\* (...) * 100: the exact product rounded half-even to 53 bits again, its
\* dropped low bits cleared
FloatTimes100(m) ==
    LET prod == Carry([i \in 1..5 |-> m[i] * 100], 5)
        drop == IF prod[1] < 128 THEN 64 ELSE 128
        low == prod[5] % drop
        kept == [prod EXCEPT ![5] = prod[5] - low]
    IN IF 2 * low > drop \/ (2 * low = drop /\ (prod[5] \div drop) % 2 = 1)
       THEN AddLow(kept, drop) ELSE kept

\* int((completed_tasks / total_tasks) * 100)
new_progress(c, t) ==
    IF c = 0 THEN 0
    ELSE FloatTimes100(FloatDiv(c, t))[1] \div Pow2(Exponent(c, t))

\* project.tasks.filter(is_deleted=False)
total_tasks(p) ==
    Cardinality({t \in DOMAIN tasks :
                   tasks[t].exists /\ tasks[t].project = p /\ ~tasks[t].is_deleted})

\* project.tasks.filter(status='completed', is_deleted=False)
completed_tasks(p) ==
    Cardinality({t \in DOMAIN tasks :
                   /\ tasks[t].exists /\ tasks[t].project = p
                   /\ ~tasks[t].is_deleted /\ tasks[t].status = "completed"})

\* what a run of a periodic job leaves in `last`: the count in its return
\* value, and `after`, the request served just before the run
JobResult(op, n) ==
    [op |-> op, actor |-> NULL, obj |-> NULL, target |-> NULL, code |-> "done",
     restricted |-> FALSE, status_only |-> FALSE, status |-> NoValue,
     project |-> NoValue, created |-> FALSE, count |-> n, after |-> last.op]

\* Project.objects.filter(is_deleted=False) with at least one live task
Recomputed(p) ==
    projects[p].exists /\ ~projects[p].is_deleted /\ total_tasks(p) > 0

\* a run that saves every project it visits
update_project_progress_AlwaysSaves ==
    LET P == {p \in DOMAIN projects : Recomputed(p)}
    IN /\ projects' = [p \in DOMAIN projects |->
                         IF p \in P
                         THEN [projects[p] EXCEPT !.progress =
                                 new_progress(completed_tasks(p), total_tasks(p))]
                         ELSE projects[p]]
       /\ UNCHANGED jobvars
       /\ last' = JobResult("update_project_progress", Cardinality(P))
       /\ UNCHANGED <<users, members, tasks>>

\* update_project_progress: one run
update_project_progress ==
    LET P == {p \in DOMAIN projects :
                /\ Recomputed(p)
                /\ projects[p].progress #
                      new_progress(completed_tasks(p), total_tasks(p))}
    IN /\ projects' = [p \in DOMAIN projects |->
                         IF p \in P
                         THEN [projects[p] EXCEPT !.progress =
                                 new_progress(completed_tasks(p), total_tasks(p))]
                         ELSE projects[p]]
       /\ UNCHANGED jobvars
       /\ last' = JobResult("update_project_progress", Cardinality(P))
       /\ UNCHANGED <<users, members, tasks>>

----------------------------------------------------------------------------
(* The progress job over projects of up to MaxTasks tasks                  *)

MaxTasks == 50
ProgressTasks == 1..MaxTasks
\* the progress a project without live tasks was left with
StaleProgress == 40
\* the tasks whose status the admin changes between runs
TouchedTasks == {1}

\* p1 holds n live tasks, the first c of them completed, and d soft-deleted
\* completed ones; p2 holds no task and may itself be soft-deleted
InitProgress ==
    /\ users = [u \in Users |->
                  IF u = "u1" THEN User("admin", TRUE) ELSE User("member", TRUE)]
    /\ members = [k \in Projects \X Users |->
                    IF k[2] = "u1" THEN <<OwnerRow>> ELSE <<>>]
    /\ \E del \in BOOLEAN :
          projects = [p \in Projects |->
                        IF p = "p1"
                        THEN [NoProject EXCEPT !.exists = TRUE, !.created_by = "u1"]
                        ELSE [NoProject EXCEPT !.exists = TRUE, !.created_by = "u1",
                                               !.is_deleted = del,
                                               !.progress = StaleProgress]]
    /\ \E n \in 0..MaxTasks, d \in {0, 1} :
          /\ n + d <= MaxTasks
          /\ \E c \in 0..n :
                tasks = [t \in ProgressTasks |->
                           IF t <= n
                           THEN [NoTask EXCEPT !.exists = TRUE, !.project = "p1",
                                   !.created_by = "u1",
                                   !.status = IF t <= c THEN "completed" ELSE "todo"]
                           ELSE IF t <= n + d
                           THEN [NoTask EXCEPT !.exists = TRUE, !.project = "p1",
                                   !.created_by = "u1", !.status = "completed",
                                   !.is_deleted = TRUE]
                           ELSE NoTask]
    /\ Quiet
    /\ last = NoRequest

NextProgress ==
    \/ update_project_progress
    \/ \E t \in TouchedTasks, s \in {"completed", "todo"} : update_status("u1", t, s)

SpecProgress == InitProgress /\ [][NextProgress]_vars

----------------------------------------------------------------------------
(* apps/common/tasks.py: send_notification_emails                          *)

\* notifications[:100]
BatchLimit == 100
\* the mails per notification the runs are followed up to
MaxEmails == 2
\* the latest created_at among the stored rows (0 when there is none)
Latest ==
    LET T == {notifications[n].created_at : n \in DOMAIN notifications}
    IN CHOOSE t \in T : \A u \in T : u <= t

\* the rows created at t; no two rows share a created_at
CreatedAt(t) ==
    {n \in DOMAIN notifications :
        notifications[n].exists /\ notifications[n].created_at = t}

\* the points in time from latest down to 1, each with the rows created then
NewestFirst(latest) == [i \in 1..latest |-> CreatedAt(latest + 1 - i)]

\* the rows of the points in time that have one
RowsOf(slots) ==
    LET filled == SelectSeq(slots, LAMBDA rows : rows # {})
    IN [i \in 1..Len(filled) |-> CHOOSE n \in filled[i] : TRUE]

\* order_by('-created_at'): the order the queryset returns the rows in
\* (each step is worked out once, then handed on)
NotificationOrder ==
    CHOOSE order \in {RowsOf(slots) :
                        slots \in {NewestFirst(t) : t \in {Latest}}} : TRUE

\* filter(is_read=False, email_sent=False, recipient__email_notifications=True)
Pending(n) ==
    /\ notifications[n].exists
    /\ ~notifications[n].is_read
    /\ ~notifications[n].email_sent
    /\ users[notifications[n].recipient].email_notifications

\* the rows the loop iterates over, fetched by one query when it starts
PendingBatch ==
    LET all == SelectSeq(NotificationOrder, Pending)
    IN SubSeq(all, 1, IF Len(all) < BatchLimit THEN Len(all) ELSE BatchLimit)

Sending(w) ==
    inflight[w].pc # "idle" /\ inflight[w].op = "send_notification_emails"

\* a worker takes the job from the queue and runs the query
send_notification_emails_begin(w) ==
    /\ inflight[w] = Idle
    /\ inflight' = [inflight EXCEPT ![w] =
                      [pc |-> "send_mail", op |-> "send_notification_emails",
                       batch |-> PendingBatch, sent_count |-> 0]]
    /\ UNCHANGED <<users, projects, members, tasks, last, notifications, outbox>>

\* send_mail(...) for the notification the loop is at
send_mail(w) ==
    /\ Sending(w)
    /\ inflight[w].pc = "send_mail"
    /\ inflight[w].batch # <<>>
    /\ outbox[Head(inflight[w].batch)] < MaxEmails
    /\ outbox' = [outbox EXCEPT ![Head(inflight[w].batch)] = @ + 1]
    /\ inflight' = [inflight EXCEPT ![w].pc = "save"]
    /\ UNCHANGED <<users, projects, members, tasks, last, notifications>>

\* send_mail raises (fail_silently=False); the except clause goes on with
\* the next notification
send_mail_raises(w) ==
    /\ Sending(w)
    /\ inflight[w].pc = "send_mail"
    /\ inflight[w].batch # <<>>
    /\ inflight' = [inflight EXCEPT ![w].batch = Tail(@)]
    /\ UNCHANGED <<users, projects, members, tasks, last, notifications, outbox>>

\* notification.email_sent = True; save(update_fields=['email_sent'])
save_email_sent(w) ==
    /\ Sending(w)
    /\ inflight[w].pc = "save"
    /\ notifications' =
          [notifications EXCEPT ![Head(inflight[w].batch)].email_sent = TRUE]
    /\ inflight' = [inflight EXCEPT ![w].pc = "send_mail", ![w].batch = Tail(@),
                                    ![w].sent_count = @ + 1]
    /\ UNCHANGED <<users, projects, members, tasks, last, outbox>>

\* the loop is over: return f"Sent {sent_count} notification emails"
send_notification_emails_end(w) ==
    /\ Sending(w)
    /\ inflight[w].pc = "send_mail"
    /\ inflight[w].batch = <<>>
    /\ last' = JobResult("send_notification_emails", inflight[w].sent_count)
    /\ inflight' = [inflight EXCEPT ![w] = Idle]
    /\ UNCHANGED <<users, projects, members, tasks, notifications, outbox>>

\* task_acks_late: the worker is lost before it acknowledged the job, which
\* goes back to the queue to be run again
worker_lost(w) ==
    /\ Sending(w)
    /\ inflight' = [inflight EXCEPT ![w] = Idle]
    /\ UNCHANGED <<users, projects, members, tasks, last, notifications, outbox>>

\* timezone.now() as stored in read_at
Now == "now"

\* Notification.mark_as_read, by its recipient
mark_as_read(n) ==
    /\ notifications[n].exists
    /\ IsAuthenticated(notifications[n].recipient)
    /\ notifications' = [notifications EXCEPT ![n].is_read = TRUE,
                                              ![n].read_at = Now]
    /\ last' = Reply("mark_as_read", notifications[n].recipient, n, NULL, HTTP_200_OK)
    /\ UNCHANGED <<users, projects, members, tasks, outbox, inflight>>

\* POST /notifications/mark_all_read/ : MarkAllNotificationsReadView.post,
\* filter(recipient=request.user, is_read=False).update(is_read=True)
mark_all_read(a) ==
    /\ IsAuthenticated(a)
    /\ notifications' =
          [n \in DOMAIN notifications |->
             IF /\ notifications[n].exists
                /\ notifications[n].recipient = a
                /\ ~notifications[n].is_read
             THEN [notifications[n] EXCEPT !.is_read = TRUE]
             ELSE notifications[n]]
    /\ last' = Reply("mark_all_read", a, NULL, NULL, HTTP_200_OK)
    /\ UNCHANGED <<users, projects, members, tasks, outbox, inflight>>

----------------------------------------------------------------------------
(* Runs of the email job on two workers                                    *)

\* n1 awaits its email; n2 goes to a user with or without email
\* notifications, its email sent already or not
InitNotify ==
    /\ \E en \in BOOLEAN :
          users = [u \in Users |->
                     IF u = "u1" THEN User("admin", TRUE)
                     ELSE IF u = "u2" THEN User("member", TRUE)
                     ELSE [User("member", TRUE) EXCEPT !.email_notifications = en]]
    /\ projects = [p \in Projects |-> NoProject]
    /\ members = [k \in Projects \X Users |-> <<>>]
    /\ tasks = [t \in Tasks |-> NoTask]
    /\ \E sent \in BOOLEAN :
          /\ notifications =
                [n \in Notifications |->
                   IF n = "n1"
                   THEN [NoNotification EXCEPT !.exists = TRUE, !.recipient = "u2",
                                               !.created_at = 2]
                   ELSE [NoNotification EXCEPT !.exists = TRUE, !.recipient = "u3",
                                               !.created_at = 1,
                                               !.email_sent = sent]]
          /\ outbox = [n \in Notifications |->
                         IF n = "n2" /\ sent THEN 1 ELSE 0]
    /\ inflight = [w \in Workers |-> Idle]
    /\ last = NoRequest

NextNotify ==
    \/ \E w \in Workers : send_notification_emails_begin(w)
    \/ \E w \in Workers : send_mail(w)
    \/ \E w \in Workers : send_mail_raises(w)
    \/ \E w \in Workers : save_email_sent(w)
    \/ \E w \in Workers : send_notification_emails_end(w)
    \/ \E w \in Workers : worker_lost(w)
    \/ \E n \in Notifications : mark_as_read(n)
    \/ \E a \in Users : mark_all_read(a)

SpecNotify == InitNotify /\ [][NextNotify]_vars

----------------------------------------------------------------------------
(* Runs of the email job, repeated for ever, over a backlog                *)

\* the users whose address refuses every mail: send_mail to them raises
BouncingUsers == {"u3"}

Deliverable(n) == notifications[n].recipient \notin BouncingUsers

\* send_mail for a notification whose recipient's address accepts mail
send_mail_delivers(w) ==
    /\ Sending(w)
    /\ inflight[w].batch # <<>>
    /\ Deliverable(Head(inflight[w].batch))
    /\ send_mail(w)

\* send_mail for a notification whose recipient's address refuses it
send_mail_bounces(w) ==
    /\ Sending(w)
    /\ inflight[w].batch # <<>>
    /\ ~Deliverable(Head(inflight[w].batch))
    /\ send_mail_raises(w)

\* the notifications of the backlog, numbered by age: 1 is the oldest
Backlog == 1..(BatchLimit + 1)

\* the oldest notification is for u2, whose address accepts mail; after it
\* came BatchLimit - 1 or BatchLimit notifications for u3, whose address
\* refuses mail. None was read and no email was sent.
InitBacklog ==
    /\ users = [u \in Users |->
                  IF u = "u1" THEN User("admin", TRUE) ELSE User("member", TRUE)]
    /\ projects = [p \in Projects |-> NoProject]
    /\ members = [k \in Projects \X Users |-> <<>>]
    /\ tasks = [t \in Tasks |-> NoTask]
    /\ \E newer \in {BatchLimit - 1, BatchLimit} :
          notifications =
             [n \in Backlog |->
                IF n <= newer + 1
                THEN [NoNotification EXCEPT
                        !.exists = TRUE, !.created_at = n,
                        !.recipient = IF n = 1 THEN "u2" ELSE "u3"]
                ELSE NoNotification]
    /\ outbox = [n \in Backlog |-> 0]
    /\ inflight = [w \in Workers |-> Idle]
    /\ last = NoRequest

\* the runs follow one another on one worker
BacklogWorkers == {"w1"}

NextBacklog ==
    \/ \E w \in BacklogWorkers : send_notification_emails_begin(w)
    \/ \E w \in BacklogWorkers : send_mail_delivers(w)
    \/ \E w \in BacklogWorkers : send_mail_bounces(w)
    \/ \E w \in BacklogWorkers : save_email_sent(w)
    \/ \E w \in BacklogWorkers : send_notification_emails_end(w)

\* the schedule starts the job again and again, and the worker that runs it
\* goes on to the end of its loop
FairBacklog ==
    \A w \in BacklogWorkers :
       /\ WF_vars(send_notification_emails_begin(w))
       /\ WF_vars(send_mail_delivers(w))
       /\ WF_vars(send_mail_bounces(w))
       /\ WF_vars(save_email_sent(w))
       /\ WF_vars(send_notification_emails_end(w))

SpecBacklog == InitBacklog /\ [][NextBacklog]_vars /\ FairBacklog

----------------------------------------------------------------------------
(* apps/common/tasks.py: generate_daily_digest                             *)

\* the users whose notification_preferences.digest_frequency is 'daily', in
\* the order the queryset returns them
DigestOrder == <<"u2", "u3">>

\* filter(notification_preferences__digest_frequency='daily',
\*        email_notifications=True)
users_with_digest ==
    SelectSeq(DigestOrder, LAMBDA u : users[u].email_notifications)

\* notifications.exists() for the user the loop is at: the stored
\* notifications are all of yesterday
HasDigestNotifications(u) ==
    \E n \in Notifications :
       notifications[n].exists /\ notifications[n].recipient = u

Digesting(w) ==
    inflight[w].pc # "idle" /\ inflight[w].op = "generate_daily_digest"

\* a worker takes the job from the queue and runs the query over the users
generate_daily_digest_begin(w) ==
    /\ inflight[w] = Idle
    /\ inflight' = [inflight EXCEPT ![w] =
                      [pc |-> "render", op |-> "generate_daily_digest",
                       batch |-> users_with_digest, sent_count |-> 0]]
    /\ UNCHANGED <<users, projects, members, tasks, last, notifications, outbox>>

\* if notifications.exists() is false: on to the next user
digest_skip(w) ==
    /\ Digesting(w)
    /\ inflight[w].pc = "render"
    /\ inflight[w].batch # <<>>
    /\ ~HasDigestNotifications(Head(inflight[w].batch))
    /\ inflight' = [inflight EXCEPT ![w].batch = Tail(@)]
    /\ UNCHANGED <<users, projects, members, tasks, last, notifications, outbox>>

\* render_to_string('emails/daily_digest.html', context) returns
render_to_string(w) ==
    /\ Digesting(w)
    /\ inflight[w].pc = "render"
    /\ inflight[w].batch # <<>>
    /\ HasDigestNotifications(Head(inflight[w].batch))
    /\ inflight' = [inflight EXCEPT ![w].pc = "send_mail"]
    /\ UNCHANGED <<users, projects, members, tasks, last, notifications, outbox>>

\* render_to_string raises: the call is outside the try block, so the
\* exception leaves the loop and the job
render_to_string_raises(w) ==
    /\ Digesting(w)
    /\ inflight[w].pc = "render"
    /\ inflight[w].batch # <<>>
    /\ HasDigestNotifications(Head(inflight[w].batch))
    /\ last' = [JobResult("generate_daily_digest", inflight[w].sent_count)
                  EXCEPT !.code = "raised"]
    /\ inflight' = [inflight EXCEPT ![w] = Idle]
    /\ UNCHANGED <<users, projects, members, tasks, notifications, outbox>>

\* send_mail(...) of the digest returns; sent_count += 1
digest_send_mail(w) ==
    /\ Digesting(w)
    /\ inflight[w].pc = "send_mail"
    /\ outbox[Head(inflight[w].batch)] < MaxEmails
    /\ outbox' = [outbox EXCEPT ![Head(inflight[w].batch)] = @ + 1]
    /\ inflight' = [inflight EXCEPT ![w].pc = "render", ![w].batch = Tail(@),
                                    ![w].sent_count = @ + 1]
    /\ UNCHANGED <<users, projects, members, tasks, last, notifications>>

\* send_mail raises: the except clause goes on with the next user
digest_send_mail_raises(w) ==
    /\ Digesting(w)
    /\ inflight[w].pc = "send_mail"
    /\ inflight' = [inflight EXCEPT ![w].pc = "render", ![w].batch = Tail(@)]
    /\ UNCHANGED <<users, projects, members, tasks, last, notifications, outbox>>

\* the loop is over: return f"Sent {sent_count} daily digest emails"
generate_daily_digest_end(w) ==
    /\ Digesting(w)
    /\ inflight[w].pc = "render"
    /\ inflight[w].batch = <<>>
    /\ last' = JobResult("generate_daily_digest", inflight[w].sent_count)
    /\ inflight' = [inflight EXCEPT ![w] = Idle]
    /\ UNCHANGED <<users, projects, members, tasks, notifications, outbox>>

----------------------------------------------------------------------------
(* Runs of the two mail jobs, every run carried to its end                 *)

\* n1 is for u2 and n2 for u2 or u3; nothing was mailed yet. The outbox
\* counts the mails per notification and the digests per user.
InitBatch ==
    /\ users = [u \in Users |->
                  IF u = "u1" THEN User("admin", TRUE) ELSE User("member", TRUE)]
    /\ projects = [p \in Projects |-> NoProject]
    /\ members = [k \in Projects \X Users |-> <<>>]
    /\ tasks = [t \in Tasks |-> NoTask]
    /\ \E r \in {"u2", "u3"} :
          notifications =
             [n \in Notifications |->
                [NoNotification EXCEPT !.exists = TRUE,
                                       !.created_at = IF n = "n1" THEN 2 ELSE 1,
                                       !.recipient = IF n = "n1" THEN "u2" ELSE r]]
    /\ outbox = [x \in Notifications \cup Users |-> 0]
    /\ inflight = [w \in Workers |-> Idle]
    /\ last = NoRequest

NextBatch ==
    \/ \E w \in Workers : send_notification_emails_begin(w)
    \/ \E w \in Workers : send_mail(w)
    \/ \E w \in Workers : send_mail_raises(w)
    \/ \E w \in Workers : save_email_sent(w)
    \/ \E w \in Workers : send_notification_emails_end(w)
    \/ \E w \in Workers : generate_daily_digest_begin(w)
    \/ \E w \in Workers : digest_skip(w)
    \/ \E w \in Workers : render_to_string(w)
    \/ \E w \in Workers : render_to_string_raises(w)
    \/ \E w \in Workers : digest_send_mail(w)
    \/ \E w \in Workers : digest_send_mail_raises(w)
    \/ \E w \in Workers : generate_daily_digest_end(w)

SpecBatch == InitBatch /\ [][NextBatch]_vars

----------------------------------------------------------------------------
(* apps/users: demote requests served side by side                         *)

\* the demote branch up to its last read: the permission check,
\* User.objects.get(pk), the role check and the count of active admins.
\* A refusal is answered at once; otherwise the loaded user waits to be saved.
demote_check(w, a, u) ==
    LET code ==
          IF AdminGate(a, u) # HTTP_200_OK THEN AdminGate(a, u)
          ELSE IF users[u].role # "admin" THEN HTTP_400_BAD_REQUEST
          ELSE IF ActiveAdminCount <= 1 THEN HTTP_400_BAD_REQUEST
          ELSE HTTP_200_OK
    IN /\ inflight[w] = Idle
       /\ IsAuthenticated(a)
       /\ IF code = HTTP_200_OK
          THEN /\ inflight' = [inflight EXCEPT ![w] =
                                 [pc |-> "save", op |-> "demote", actor |-> a,
                                  target |-> u, user |-> users[u]]]
               /\ last' = last
          ELSE /\ inflight' = inflight
               /\ last' = Reply("demote", a, NULL, u, code)
       /\ UNCHANGED <<users, projects, members, tasks, notifications, outbox>>

\* user.role = 'member'; is_staff = is_superuser = False; user.save(), which
\* writes every field of the instance loaded by demote_check
demote_save(w) ==
    /\ inflight[w].pc = "save"
    /\ inflight[w].op = "demote"
    /\ users' = [users EXCEPT ![inflight[w].target] =
                    [inflight[w].user EXCEPT !.role = "member",
                                             !.is_staff = FALSE,
                                             !.is_superuser = FALSE]]
    /\ last' = Reply("demote", inflight[w].actor, NULL, inflight[w].target,
                      HTTP_200_OK)
    /\ inflight' = [inflight EXCEPT ![w] = Idle]
    /\ UNCHANGED <<projects, members, tasks, notifications, outbox>>

\* two admins and a member, promote and demote requests on two workers
InitDemote ==
    /\ users = [u \in Users |->
                  IF u = "u3" THEN User("member", TRUE) ELSE User("admin", TRUE)]
    /\ projects = [p \in Projects |-> NoProject]
    /\ members = [k \in Projects \X Users |-> <<>>]
    /\ tasks = [t \in Tasks |-> NoTask]
    /\ Quiet
    /\ last = NoRequest

NextDemote ==
    \/ \E w \in Workers, a \in Users, u \in Users : demote_check(w, a, u)
    \/ \E w \in Workers : demote_save(w)
    \/ \E a \in Users, u \in Users : AdminPromote(a, u)

SpecDemote == InitDemote /\ [][NextDemote]_vars

----------------------------------------------------------------------------
(* apps/projects: add_member and remove_member served side by side         *)

Adding(w) == inflight[w].pc # "idle" /\ inflight[w].op = "add_member"
Removing(w) == inflight[w].pc # "idle" /\ inflight[w].op = "remove_member"

\* add_member up to its already-a-member check. A refusal is answered at
\* once; otherwise the request goes on to get_or_create.
add_member_check(w, a, p, u, role) ==
    LET code ==
          IF p \notin ProjectViewSet_get_queryset(a) THEN HTTP_404_NOT_FOUND
          ELSE IF u = Absent THEN HTTP_400_BAD_REQUEST
          ELSE IF u \notin Users THEN HTTP_404_NOT_FOUND
          ELSE IF HasActiveRow(p, u) THEN HTTP_400_BAD_REQUEST
          ELSE HTTP_201_CREATED
    IN /\ inflight[w] = Idle
       /\ IsAuthenticated(a)
       /\ IF code = HTTP_201_CREATED
          THEN /\ inflight' = [inflight EXCEPT ![w] =
                                 [pc |-> "get", op |-> "add_member", actor |-> a,
                                  project |-> p, user |-> u, role |-> role,
                                  member |-> NewMember(role, TRUE),
                                  integrity_error |-> FALSE]]
               /\ UNCHANGED last
          ELSE /\ last' = Reply("add_member", a, p, u, code)
               /\ UNCHANGED inflight
       /\ UNCHANGED <<users, projects, members, tasks, notifications, outbox>>

\* get_or_create: the get(project, user)
get_or_create_get(w) ==
    LET rows == MemberRows(inflight[w].project, inflight[w].user)
    IN /\ Adding(w)
       /\ inflight[w].pc = "get"
       /\ inflight' = IF rows = <<>>
                      THEN [inflight EXCEPT ![w].pc = "create"]
                      ELSE [inflight EXCEPT ![w].pc = "save", ![w].member = rows[1]]
       /\ UNCHANGED <<users, projects, members, tasks, last, notifications, outbox>>

\* an insert that no unique constraint stands in the way of
get_or_create_create_NoConstraint(w) ==
    LET k == <<inflight[w].project, inflight[w].user>>
    IN /\ Adding(w)
       /\ inflight[w].pc = "create"
       /\ members' = [members EXCEPT ![k] =
                        Append(@, ProjectMember_save(NewMember(inflight[w].role, TRUE)))]
       /\ last' = [Reply("add_member", inflight[w].actor, inflight[w].project,
                         inflight[w].user, HTTP_201_CREATED)
                     EXCEPT !.created = TRUE]
       /\ inflight' = [inflight EXCEPT ![w] = Idle]
       /\ UNCHANGED <<users, projects, tasks, notifications, outbox>>

\* get_or_create: the create(project, user, defaults) after get found no
\* row. unique_together makes the insert fail with IntegrityError when a
\* row of the pair was stored meanwhile; get_or_create then gets that row.
get_or_create_create(w) ==
    LET k == <<inflight[w].project, inflight[w].user>>
    IN /\ Adding(w)
       /\ inflight[w].pc = "create"
       /\ IF members[k] = <<>>
          THEN /\ members' = [members EXCEPT ![k] =
                       <<ProjectMember_save(NewMember(inflight[w].role, TRUE))>>]
               /\ last' = [Reply("add_member", inflight[w].actor, inflight[w].project,
                                 inflight[w].user, HTTP_201_CREATED)
                             EXCEPT !.created = TRUE]
               /\ inflight' = [inflight EXCEPT ![w] = Idle]
          ELSE /\ inflight' = [inflight EXCEPT ![w].pc = "save",
                                               ![w].member = members[k][1],
                                               ![w].integrity_error = TRUE]
               /\ UNCHANGED <<members, last>>
       /\ UNCHANGED <<users, projects, tasks, notifications, outbox>>

\* if not created: member.is_active = True; member.role = role; member.save()
add_member_save(w) ==
    LET k == <<inflight[w].project, inflight[w].user>>
    IN /\ Adding(w)
       /\ inflight[w].pc = "save"
       /\ members' = [members EXCEPT ![k][1] =
                        ProjectMember_save([inflight[w].member EXCEPT
                                              !.is_active = TRUE,
                                              !.role = inflight[w].role])]
       /\ last' = Reply("add_member", inflight[w].actor, inflight[w].project,
                        inflight[w].user, HTTP_201_CREATED)
       /\ inflight' = [inflight EXCEPT ![w] = Idle]
       /\ UNCHANGED <<users, projects, tasks, notifications, outbox>>

\* remove_member up to its owner check: get_object, the get of the active
\* row and the comparison with project.created_by
remove_member_get(w, a, p, u) ==
    LET code ==
          IF p \notin ProjectViewSet_get_queryset(a) THEN HTTP_404_NOT_FOUND
          ELSE IF u \notin Users \/ ~HasActiveRow(p, u) THEN HTTP_404_NOT_FOUND
          ELSE IF u = projects[p].created_by THEN HTTP_400_BAD_REQUEST
          ELSE HTTP_200_OK
    IN /\ inflight[w] = Idle
       /\ IsAuthenticated(a)
       /\ IF code = HTTP_200_OK
          THEN /\ inflight' = [inflight EXCEPT ![w] =
                                 [pc |-> "save", op |-> "remove_member", actor |-> a,
                                  project |-> p, user |-> u,
                                  member |-> MemberRows(p, u)[ActiveIndex(p, u)]]]
               /\ UNCHANGED last
          ELSE /\ last' = Reply("remove_member", a, p, u, code)
               /\ UNCHANGED inflight
       /\ UNCHANGED <<users, projects, members, tasks, notifications, outbox>>

\* member.is_active = False; member.save()
remove_member_save(w) ==
    LET k == <<inflight[w].project, inflight[w].user>>
    IN /\ Removing(w)
       /\ inflight[w].pc = "save"
       /\ members' = [members EXCEPT ![k][1] =
                        ProjectMember_save([inflight[w].member EXCEPT
                                              !.is_active = FALSE])]
       /\ last' = Reply("remove_member", inflight[w].actor, inflight[w].project,
                        inflight[w].user, HTTP_200_OK)
       /\ inflight' = [inflight EXCEPT ![w] = Idle]
       /\ UNCHANGED <<users, projects, tasks, notifications, outbox>>

\* p1 of u2; u3 was never a member of it or was removed from it
InitAddMember ==
    /\ users = [u \in Users |->
                  IF u = "u1" THEN User("admin", TRUE) ELSE User("member", TRUE)]
    /\ projects = [p \in Projects |->
                     IF p = "p1"
                     THEN [NoProject EXCEPT !.exists = TRUE, !.created_by = "u2"]
                     ELSE NoProject]
    /\ \E former \in BOOLEAN :
          members = [k \in Projects \X Users |->
                       IF k = <<"p1", "u2">> THEN <<OwnerRow>>
                       ELSE IF k = <<"p1", "u3">> /\ former
                            THEN <<NewMember("member", FALSE)>>
                       ELSE <<>>]
    /\ tasks = [t \in Tasks |-> NoTask]
    /\ Quiet
    /\ last = NoRequest

NextAddMember ==
    \/ \E w \in Workers, a \in {"u2", "u3"}, u \in {"u3"},
          role \in {"member", "manager"} : add_member_check(w, a, "p1", u, role)
    \/ \E w \in Workers : get_or_create_get(w)
    \/ \E w \in Workers : get_or_create_create(w)
    \/ \E w \in Workers : add_member_save(w)
    \/ \E w \in Workers, a \in {"u2", "u3"}, u \in {"u2", "u3"} :
          remove_member_get(w, a, "p1", u)
    \/ \E w \in Workers : remove_member_save(w)

SpecAddMember == InitAddMember /\ [][NextAddMember]_vars

----------------------------------------------------------------------------
(* The status of one task, changed by the admin, a member and an outsider  *)

\* payloads that name `status`, `title`, both or neither
LifecycleRequests ==
    {r \in Payloads({"status", "title"}, STATUS_CHOICES, {}, {}) : WellFormed(r)}

\* t1 of p1 is completed or cancelled; its assignee is u2, a member of p1,
\* or u3, whom the admin assigned and who has no membership row in p1
InitLifecycle ==
    /\ users = [u \in Users |->
                  IF u = "u1" THEN User("admin", TRUE)
                  ELSE IF u = "u2" THEN User("member", TRUE)
                  ELSE User("team_leader", TRUE)]
    /\ projects = [p \in Projects |->
                     [NoProject EXCEPT !.exists = TRUE, !.created_by = "u1"]]
    /\ members = [k \in Projects \X Users |->
                    IF k[2] = "u1" THEN <<OwnerRow>>
                    ELSE IF k = <<"p1", "u2">> THEN <<NewMember("member", TRUE)>>
                    ELSE <<>>]
    /\ \E as \in {"u2", "u3"}, st \in {"completed", "cancelled"} :
          tasks = [t \in Tasks |->
                     [NoTask EXCEPT !.exists = TRUE, !.project = "p1",
                                    !.assignee = as, !.created_by = "u1",
                                    !.status = st]]
    /\ Quiet
    /\ last = NoRequest

NextLifecycle ==
    \/ \E a \in Users, t \in Tasks, m \in {"PUT", "PATCH"},
          req \in LifecycleRequests : TaskUpdate(a, t, m, req)
    \/ \E a \in Users, t \in Tasks, s \in STATUS_CHOICES \cup {Absent} :
          update_status(a, t, s)

SpecLifecycle == InitLifecycle /\ [][NextLifecycle]_vars

----------------------------------------------------------------------------
(* Requests and the progress job over soft-deleted rows                    *)

\* p1 is live and p2 soft-deleted, both created by u2 with u3 as a member;
\* t1 of p1, assigned to u3, is soft-deleted or not
InitSoftDelete ==
    /\ users = [u \in Users |->
                  IF u = "u1" THEN User("admin", TRUE) ELSE User("member", TRUE)]
    /\ projects = [p \in Projects |->
                     [NoProject EXCEPT !.exists = TRUE, !.created_by = "u2",
                                       !.is_deleted = (p = "p2"),
                                       !.progress = StaleProgress]]
    /\ members = [k \in Projects \X Users |->
                    IF k[2] = "u2" THEN <<OwnerRow>>
                    ELSE IF k[2] = "u3" THEN <<NewMember("member", TRUE)>>
                    ELSE <<>>]
    /\ \E del \in BOOLEAN :
          tasks = [t \in Tasks |->
                     [NoTask EXCEPT !.exists = TRUE, !.project = "p1",
                                    !.assignee = "u3", !.created_by = "u1",
                                    !.is_deleted = del]]
    /\ Quiet
    /\ last = NoRequest

NextSoftDelete ==
    \/ \E a \in Users, t \in Tasks, m \in {"PUT", "PATCH"},
          req \in LifecycleRequests : TaskUpdate(a, t, m, req)
    \/ \E a \in Users, t \in Tasks, s \in {"completed", Absent} :
          update_status(a, t, s)
    \/ \E a \in Users, t \in Tasks : TaskRetrieve(a, t)
    \/ \E a \in Users, t \in Tasks : TaskDestroy(a, t)
    \/ \E a \in Users, p \in Projects : ProjectRetrieve(a, p)
    \/ \E a \in Users, p \in Projects, u \in {"u1", "u3"}, r \in {"member"} :
          add_member(a, p, u, r)
    \/ \E a \in Users, p \in Projects, u \in {"u2", "u3"} :
          remove_member(a, p, u)
    \/ update_project_progress

SpecSoftDelete == InitSoftDelete /\ [][NextSoftDelete]_vars

----------------------------------------------------------------------------
(* Properties of the task endpoints                                        *)

TaskUpdateOps == {"update", "partial_update"}
TaskStatusOps == {"update", "partial_update", "update_status"}

\* C1: for a non-admin actor, a PUT/PATCH of a task whose payload names
\* assignee, assignee_id or project is denied (403, or 404 when the task is
\* not in the actor's queryset), whatever else the payload holds, and the
\* task store is left as it was.
C1_RestrictedFieldsDenied ==
    [][ (/\ last'.op \in TaskUpdateOps
         /\ ~is_admin_user(last'.actor)
         /\ last'.restricted)
        => (last'.code \in Denied /\ tasks' = tasks) ]_vars

\* the assignee, an active member of the task's project, sent an admin-only
\* field together with `status` and was refused
C1_Witness ==
    /\ last.op \in TaskUpdateOps
    /\ ~is_admin_user(last.actor)
    /\ last.restricted
    /\ last.status \in STATUS_CHOICES
    /\ tasks[last.obj].assignee = last.actor
    /\ HasActiveRow(tasks[last.obj].project, last.actor)
    /\ last.code = HTTP_403_FORBIDDEN

\* the authorisation outcome of a task update by a non-admin: let through
\* exactly when the actor is the assignee and the payload is within {status}
C2_AllowedIff(r, t) ==
    (r.code \notin Denied) <=> (t.exists /\ t.assignee = r.actor /\ r.status_only)

C3_CreateAdminOnly ==
    [][ (last'.op = "create" /\ ~is_admin_user(last'.actor))
        => /\ last'.code = HTTP_403_FORBIDDEN
           /\ tasks' = tasks ]_vars

\* an active member of a project was refused the creation of a task
C3_Witness ==
    /\ last.op = "create"
    /\ ~is_admin_user(last.actor)
    /\ \E p \in Projects : HasActiveRow(p, last.actor)
    /\ last.code = HTTP_403_FORBIDDEN

----------------------------------------------------------------------------
(* Properties of the project and membership endpoints                      *)

ProjectScopedOps ==
    {"retrieve_project", "add_member", "remove_member", "retrieve_member",
     "update_member", "destroy_member", "destroy_project"}

\* C4: once remove_member has set U's membership of P inactive, the next
\* request of the non-admin U on P (retrieve, add_member, remove_member, the
\* members of P) is denied.
C4_RemovedMemberDenied ==
    [][ (/\ last.op = "remove_member"
         /\ last.code = HTTP_200_OK
         /\ last'.actor = last.target
         /\ last'.obj = last.obj
         /\ last'.op \in ProjectScopedOps
         /\ ~is_admin_user(last'.actor))
        => last'.code \in Denied ]_vars

\* C5: an admin user's add_member for a user with no active membership and
\* remove_member of an active member other than the owner succeed on every
\* existing project, whether or not the admin is a member of it.
C5_AdminAllowedEverywhere ==
    [][ (/\ last'.op \in {"add_member", "remove_member"}
         /\ is_admin_user(last'.actor)
         /\ projects[last'.obj].exists
         /\ ~projects[last'.obj].is_deleted
         /\ last'.target \in Users
         /\ IF last'.op = "add_member"
            THEN ~HasActiveRow(last'.obj, last'.target)
            ELSE /\ HasActiveRow(last'.obj, last'.target)
                 /\ last'.target # projects[last'.obj].created_by)
        => last'.code \in Success ]_vars

\* C7: every existing project has at least one ProjectMember row with
\* role = admin and is_active = true.
C7_ProjectKeepsAnAdmin ==
    \A p \in Projects :
        projects[p].exists =>
            \E u \in Users : \E i \in 1..Len(MemberRows(p, u)) :
                MemberRows(p, u)[i].role = "admin" /\ MemberRows(p, u)[i].is_active

\* the capability flags a role stands for
FlagsOfRole(row) ==
    /\ row.can_edit_project = (row.role \in {"admin", "manager"})
    /\ row.can_manage_members = (row.role \in {"admin", "manager"})
    /\ row.can_delete_project = (row.role = "admin")

\* C8: the capability flags of every saved ProjectMember are those of its
\* role: admin all three, manager edit and manage, member none.
C8_FlagsFollowRole ==
    \A k \in DOMAIN members : \A i \in 1..Len(members[k]) : FlagsOfRole(members[k][i])

\* C9: remove_member on the member whose user is project.created_by fails,
\* whatever that member's role and whoever asks, and changes no membership
\* row; when the request reaches the owner check (the actor has a row in the
\* project and the owner's row is active) the answer is 400.
C9_OwnerNotRemovable ==
    [][ (/\ last'.op = "remove_member"
         /\ last'.target \in Users
         /\ last'.target = projects[last'.obj].created_by)
        => /\ last'.code \notin Success
           /\ members' = members
           /\ (/\ MemberRows(last'.obj, last'.actor) # <<>>
               /\ HasActiveRow(last'.obj, last'.target))
                => last'.code = HTTP_400_BAD_REQUEST ]_vars

\* another member asked to remove the owner, whose role is no longer admin,
\* and was refused; the owner's row is still active
C9_Witness ==
    /\ last.op = "remove_member"
    /\ last.target \in Users
    /\ last.target = projects[last.obj].created_by
    /\ last.actor # last.target
    /\ last.code = HTTP_400_BAD_REQUEST
    /\ MemberRows(last.obj, last.target)[1].role # "admin"
    /\ MemberRows(last.obj, last.target)[1].is_active

\* C10: a successful remove_member keeps the (project, user) row and only
\* clears its is_active; a successful add_member with role r leaves exactly
\* one row for the pair, active and of role r, inserting it only when the
\* pair had none and otherwise reactivating the row that was there; no pair
\* ever has two rows.
C10_SoftRemoveAndUpsert ==
    [][ LET r == last'
            k == <<r.obj, r.target>>
        IN /\ (r.op = "remove_member" /\ r.code = HTTP_200_OK)
                => /\ Len(members'[k]) = Len(members[k])
                   /\ ~members'[k][1].is_active
                   /\ members'[k][1].role = members[k][1].role
                   /\ \A j \in DOMAIN members : j # k => members'[j] = members[j]
           /\ (r.op = "add_member" /\ r.code = HTTP_201_CREATED)
                => /\ Len(members'[k]) = 1
                   /\ members'[k][1].is_active
                   /\ r.created <=> (members[k] = <<>>)
                   /\ \A role \in ROLE_CHOICES :
                        add_member(r.actor, r.obj, r.target, role)
                            => members'[k][1].role = role
                   /\ \A j \in DOMAIN members : j # k => members'[j] = members[j]
           /\ \A j \in DOMAIN members : Len(members'[j]) <= 1 ]_vars

\* add_member found an inactive row of a non-owner and reactivated it as
\* manager: the row was not created by the request and is the only one
C10_Witness ==
    /\ last.op = "add_member"
    /\ last.code = HTTP_201_CREATED
    /\ ~last.created
    /\ last.target # projects[last.obj].created_by
    /\ Len(MemberRows(last.obj, last.target)) = 1
    /\ MemberRows(last.obj, last.target)[1].is_active
    /\ MemberRows(last.obj, last.target)[1].role = "manager"

----------------------------------------------------------------------------
(* Properties of the admin user-management endpoints                       *)

\* what a successful demote leaves of its target
Demoted(u) ==
    /\ users'[u].role = "member"
    /\ ~users'[u].is_staff
    /\ ~users'[u].is_superuser
    /\ users'[u].is_active = users[u].is_active
    /\ \A v \in Users : v # u => users'[v] = users[v]

\* C6 as stated: demote of a role-admin user by an admin fails, changing
\* nothing, when the target is the last active admin, and succeeds whenever
\* at least two admin users exist.
C6_Original ==
    [][ (/\ last'.op = "demote"
         /\ is_admin_user(last'.actor)
         /\ last'.target \in Users
         /\ users[last'.target].role = "admin")
        => LET u == last'.target IN
           /\ (users[u].is_active /\ ActiveAdminCount = 1)
                => (last'.code \notin Success /\ users' = users)
           /\ (AdminCount >= 2) => (last'.code = HTTP_200_OK /\ Demoted(u)) ]_vars

\* C6 (amended): demote of a role-admin user by an admin fails with 400 and
\* changes nothing when at most one ACTIVE admin exists (so also when the
\* target is an inactive admin beside a single active one), and succeeds when
\* at least two active admins exist; on success the target has role = member
\* with is_staff and is_superuser false and no other user changes.
C6_DemoteLastAdmin ==
    [][ (/\ last'.op = "demote"
         /\ is_admin_user(last'.actor)
         /\ last'.target \in Users
         /\ users[last'.target].role = "admin")
        => LET u == last'.target IN
           /\ (ActiveAdminCount <= 1)
                => (last'.code = HTTP_400_BAD_REQUEST /\ users' = users)
           /\ (ActiveAdminCount >= 2) => (last'.code = HTTP_200_OK /\ Demoted(u)) ]_vars

\* the only active admin was asked to be demoted while a second, inactive
\* admin row exists, and the request was refused
C6_Witness ==
    /\ last.op = "demote"
    /\ is_admin_user(last.actor)
    /\ last.target \in Users
    /\ users[last.target].role = "admin"
    /\ users[last.target].is_active
    /\ ActiveAdminCount = 1
    /\ AdminCount = 2
    /\ last.code = HTTP_400_BAD_REQUEST

----------------------------------------------------------------------------
(* Properties of the task lifecycle                                        *)

\* C11: whenever PATCH /tasks/{id} or update_status succeeds with
\* status = completed, the task's completed_at is non-null afterwards (the
\* time of the transition), and on a task that was already completed
\* completed_at keeps its value.
C11_CompletedAtStamped ==
    [][ (/\ last'.op \in {"partial_update", "update_status"}
         /\ last'.code \in Success
         /\ last'.status = "completed")
        => /\ tasks'[last'.obj].completed_at # NULL
           /\ (tasks[last'.obj].status = "completed")
                => (tasks'[last'.obj].completed_at = tasks[last'.obj].completed_at)
      ]_vars

\* C12: every stored task has a status among STATUS_CHOICES, and a task
\* update or update_status request carrying any other status is rejected and
\* leaves the tasks unchanged.
C12_StatusInChoices ==
    [][ /\ \A t \in DOMAIN tasks :
              tasks'[t].exists => tasks'[t].status \in STATUS_CHOICES
        /\ (/\ last'.op \in {"update", "partial_update", "update_status"}
            /\ last'.status \notin STATUS_CHOICES \cup {NoValue})
           => (last'.code \notin Success /\ tasks' = tasks)
      ]_vars

\* C13: no task update changes task.project, and an update (PUT/PATCH) whose
\* `project` value differs from the stored one is rejected, by any actor.
C13_ProjectImmutable ==
    [][ /\ \A t \in DOMAIN tasks :
              (tasks[t].exists /\ tasks'[t].exists)
                 => (tasks'[t].project = tasks[t].project)
        /\ (/\ last'.op \in {"update", "partial_update"}
            /\ last'.project # NoValue
            /\ tasks[last'.obj].exists
            /\ last'.project # tasks[last'.obj].project)
           => (last'.code \notin Success /\ tasks' = tasks)
      ]_vars

----------------------------------------------------------------------------
(* Properties of the progress job                                          *)

\* C14: a run of update_project_progress that directly follows another run
\* (no task change in between) leaves every project's progress as the first
\* run left it and saves no project: its updated count is 0.
C14_SecondRunWritesNothing ==
    [][ (last.op = "update_project_progress"
         /\ last'.op = "update_project_progress")
        => (projects' = projects /\ last'.count = 0) ]_vars

\* a second run in a row, on a project whose progress the first run had set
C14_Witness ==
    /\ last.op = "update_project_progress"
    /\ last.after = "update_project_progress"
    /\ last.count = 0
    /\ total_tasks("p1") > 1
    /\ projects["p1"].progress \notin {0, 100}

\* C15: after a run of update_project_progress every non-deleted project
\* with at least one non-deleted task has progress = floor(100 * completed /
\* total) over its non-deleted tasks; projects without non-deleted tasks and
\* soft-deleted projects keep their progress.
C15_ProgressIsFloor ==
    [][ (last'.op = "update_project_progress")
        => \A p \in DOMAIN projects :
              IF Recomputed(p)
              THEN projects'[p].progress =
                     (100 * completed_tasks(p)) \div total_tasks(p)
              ELSE projects'[p] = projects[p] ]_vars

\* C16: after every step (a run of the job or a change of a task's status)
\* each project with total_tasks > 0 has progress = round(100 * completed /
\* total), rounded to nearest; with total_tasks = 0 progress is unchanged.
C16_ProgressIsRounded ==
    [][ \A p \in DOMAIN projects :
          IF projects'[p].exists /\ total_tasks(p)' > 0
          THEN projects'[p].progress =
                 (200 * completed_tasks(p)' + total_tasks(p)')
                    \div (2 * total_tasks(p)')
          ELSE projects'[p].progress = projects[p].progress ]_vars

----------------------------------------------------------------------------
(* Further properties of projects and of user administration               *)

\* C19: right after every successful POST /projects there is exactly one
\* ProjectMember row for (new project, actor), with role = admin and
\* is_active = true, and project.created_by is the actor.
C19_CreatorIsAdminMember ==
    [][ (last'.op = "create_project" /\ last'.code \in Success)
        => LET p == last'.obj
               a == last'.actor
           IN /\ projects'[p].exists
              /\ projects'[p].created_by = a
              /\ Len(members'[<<p, a>>]) = 1
              /\ members'[<<p, a>>][1].role = "admin"
              /\ members'[<<p, a>>][1].is_active ]_vars

\* a project was just created and its creator holds its only row
C19_Witness ==
    /\ last.op = "create_project"
    /\ last.code = HTTP_201_CREATED
    /\ projects[last.obj].created_by = last.actor
    /\ MemberRows(last.obj, last.actor) = <<OwnerRow>>
    /\ \A u \in Users : u # last.actor => MemberRows(last.obj, u) = <<>>

AdminOps ==
    {"list_users", "dashboard", "patch_role", "delete_user", "promote",
     "demote", "activate", "deactivate"}

\* C20: every admin user-management operation requested by an actor for
\* whom is_admin_user does not hold is answered 403 and leaves every user's
\* role, is_staff, is_superuser and is_active unchanged.
C20_NonAdminForbidden ==
    [][ (last'.op \in AdminOps /\ ~is_admin_user(last'.actor))
        => (last'.code = HTTP_403_FORBIDDEN /\ users' = users) ]_vars

\* a member asked to demote an existing admin and was refused
C20_Witness ==
    /\ last.op = "demote"
    /\ ~is_admin_user(last.actor)
    /\ last.target \in Users
    /\ users[last.target].role = "admin"
    /\ last.code = HTTP_403_FORBIDDEN

----------------------------------------------------------------------------
(* Properties of runs that overlap                                         *)

\* C17: over any number of runs of send_notification_emails, retried or
\* overlapping, no notification has its email sent twice (a notification
\* whose email was sent is never sent again).
C17_EmailSentAtMostOnce == \A n \in Notifications : outbox[n] <= 1

\* C18: demote requests served concurrently never together remove the last
\* active admin: starting from two active admins, under every interleaving
\* of the requests' count-check and write steps at least one active admin
\* remains (so a demote of A and a demote of B are never both carried out).
C18_AnAdminRemains == ActiveAdminCount >= 1

----------------------------------------------------------------------------
(* Properties of the task status lifecycle                                 *)

\* C21: a status-only change to any valid status, requested through PATCH
\* /tasks/{id} or update_status by an admin or by the task's assignee, is
\* accepted from every stored status, completed and cancelled included, and
\* the task takes the requested status.
C21_NoTerminalLock ==
    [][ (/\ last'.op \in {"partial_update", "update_status"}
         /\ last'.status_only
         /\ last'.status \in STATUS_CHOICES
         /\ tasks[last'.obj].exists
         /\ ~tasks[last'.obj].is_deleted
         /\ \/ users[last'.actor].role = "admin"
            \/ tasks[last'.obj].assignee = last'.actor)
        => (/\ last'.code = HTTP_200_OK
            /\ tasks'[last'.obj].status = last'.status) ]_vars

\* the assignee moved the task to in_progress; every run starts with the
\* task completed or cancelled, so a terminal status has been left
C21_Witness ==
    /\ last.op = "update_status"
    /\ last.actor = tasks[last.obj].assignee
    /\ ~is_admin_user(last.actor)
    /\ last.code = HTTP_200_OK
    /\ last.status = "in_progress"
    /\ tasks[last.obj].status = "in_progress"

\* C24: task creation aside, created_by never changes, and after every
\* successful task mutation (PUT, PATCH or update_status) updated_by is the
\* actor of that mutation.
C24_ActorTracking ==
    [][ (/\ last'.op \in {"update", "partial_update", "update_status"}
         /\ last'.code \in Success)
        => (/\ tasks'[last'.obj].updated_by = last'.actor
            /\ tasks'[last'.obj].created_by = tasks[last'.obj].created_by) ]_vars

\* C25: a non-admin actor without a ProjectMember row in a task's project
\* cannot change the task's status through PATCH /tasks/{id} or
\* update_status, even as the task's assignee: the request is refused and
\* the tasks are unchanged.
C25_MembershipBeforeAssignee ==
    [][ (/\ last'.op \in {"partial_update", "update_status"}
         /\ tasks[last'.obj].exists
         /\ ~is_admin_user(last'.actor)
         /\ MemberRows(tasks[last'.obj].project, last'.actor) = <<>>)
        => (last'.code \notin Success /\ tasks' = tasks) ]_vars

----------------------------------------------------------------------------
(* Properties of soft-deleted rows                                         *)

TaskAddressedOps == {"update", "partial_update", "update_status", "retrieve"}
ProjectAddressedOps == {"retrieve_project", "add_member", "remove_member"}

\* C22: a soft-deleted task or project is in no actor's queryset (list),
\* admins included; every retrieve, update or update_status addressed to a
\* soft-deleted task and every retrieve, add_member or remove_member
\* addressed to a soft-deleted project answers 404 and changes nothing; a
\* run of update_project_progress leaves soft-deleted projects as they are
\* and writes no value a soft-deleted task contributes to.
C22_SoftDeletedInvisible ==
    [][ /\ \A a \in Users :
              /\ \A t \in TaskViewSet_get_queryset(a)' : ~tasks'[t].is_deleted
              /\ \A p \in ProjectViewSet_get_queryset(a)' : ~projects'[p].is_deleted
        /\ (/\ last'.op \in TaskAddressedOps
            /\ tasks[last'.obj].exists
            /\ tasks[last'.obj].is_deleted)
           => (/\ last'.code = HTTP_404_NOT_FOUND
               /\ UNCHANGED <<users, projects, members, tasks>>)
        /\ (/\ last'.op \in ProjectAddressedOps
            /\ projects[last'.obj].exists
            /\ projects[last'.obj].is_deleted)
           => (/\ last'.code = HTTP_404_NOT_FOUND
               /\ UNCHANGED <<users, projects, members, tasks>>)
        /\ (last'.op = "update_project_progress")
           => \A p \in DOMAIN projects :
                 /\ projects[p].is_deleted => projects'[p] = projects[p]
                 /\ (\A t \in DOMAIN tasks :
                        tasks[t].exists /\ tasks[t].project = p
                           => tasks[t].is_deleted)
                      => projects'[p] = projects[p]
      ]_vars

\* the admin asked to change the status of a soft-deleted task and got 404
C22_Witness ==
    /\ last.op = "update_status"
    /\ users[last.actor].role = "admin"
    /\ tasks[last.obj].exists
    /\ tasks[last.obj].is_deleted
    /\ last.code = HTTP_404_NOT_FOUND

----------------------------------------------------------------------------
(* Properties of the mail jobs' batches                                    *)

\* C23: one item's failure does not abort the batch: a run of
\* send_notification_emails or of generate_daily_digest is over only when
\* every notification or user of its batch was processed, whatever failed
\* on the way; a notification whose send failed keeps email_sent = false
\* and one whose email was sent gets email_sent = true once its run has
\* saved it.
C23_BatchNotAborted ==
    [][ /\ \A w \in Workers :
              (inflight[w].pc # "idle" /\ inflight'[w].pc = "idle")
                 => inflight[w].batch = <<>>
        /\ \A n \in Notifications :
              /\ notifications'[n].email_sent => outbox'[n] > 0
              /\ (/\ outbox'[n] > 0
                  /\ \A w \in Workers :
                        ~(/\ inflight'[w].pc = "save"
                          /\ Head(inflight'[w].batch) = n))
                 => notifications'[n].email_sent
      ]_vars

----------------------------------------------------------------------------
(* Properties of add_member and remove_member served side by side          *)

\* C26: there is at most one ProjectMember row per (project, user) pair in
\* every reachable state, under every interleaving of the steps of
\* concurrent add_member and remove_member requests; two add_member calls
\* that both passed the already-a-member check leave one row.
C26_OneRowPerPair ==
    \A k \in DOMAIN members : Len(members[k]) <= 1

\* two add_member requests passed the check and found no row; one created
\* the row, the other ran into the unique constraint, got that row and is
\* about to save it
C26_Witness ==
    \E w \in Workers :
       /\ Adding(w)
       /\ inflight[w].pc = "save"
       /\ inflight[w].integrity_error
       /\ Len(MemberRows(inflight[w].project, inflight[w].user)) = 1

----------------------------------------------------------------------------
(* Properties of the admin endpoints taken together                        *)

RoleOps == {"patch_role", "promote", "demote"}

\* C28: after every admin operation each user has is_staff = is_superuser
\* = (role = admin), so is_admin_user is the same as role = admin; a
\* successful patch-role, promote or demote leaves its target so, and
\* activate and deactivate change neither the role nor the two flags of
\* any user.
C28_MarkersInStep ==
    [][ /\ \A u \in Users :
              /\ users'[u].is_staff = (users'[u].role = "admin")
              /\ users'[u].is_superuser = (users'[u].role = "admin")
              /\ is_admin_user(u)' = (users'[u].role = "admin")
        /\ (last'.op \in {"activate", "deactivate"})
           => \A u \in Users :
                 /\ users'[u].role = users[u].role
                 /\ users'[u].is_staff = users[u].is_staff
                 /\ users'[u].is_superuser = users[u].is_superuser
      ]_vars

\* after a successful patch-role, promote or demote: another user was made
\* admin, the first admin is no longer one, and both carry the flags of
\* their role
C28_Witness ==
    /\ last.op \in RoleOps
    /\ last.code = HTTP_200_OK
    /\ \E u \in Users \ {"u1"} : users[u].role = "admin" /\ users[u].is_staff
    /\ users["u1"].role # "admin"
    /\ ~users["u1"].is_staff

----------------------------------------------------------------------------
(* Properties of the read markers of notifications                         *)

\* C30: a notification with is_read = true has a read_at that is not null,
\* whether mark_as_read or mark_all_read marked it; and mark_all_read
\* changes no notification whose recipient is not the actor.
C30_ReadHasReadAt ==
    [][ /\ \A n \in Notifications :
              notifications'[n].is_read => notifications'[n].read_at # NULL
        /\ (last'.op = "mark_all_read")
           => \A n \in Notifications :
                 notifications[n].recipient # last'.actor
                    => notifications'[n] = notifications[n]
      ]_vars

----------------------------------------------------------------------------
(* Properties of the email job over a backlog                              *)

\* C29: under fair repeated runs of send_notification_emails no eligible
\* notification is starved by the batch limit: every unread notification
\* whose recipient has email notifications on and whose own send would
\* succeed eventually has email_sent = true, even when more notifications
\* than the batch limit are pending and the sends of the newer ones keep
\* failing.
C29_NoStarvation ==
    <>(\A n \in Backlog :
          (/\ notifications[n].exists
           /\ ~notifications[n].is_read
           /\ users[notifications[n].recipient].email_notifications
           /\ Deliverable(n))
             => notifications[n].email_sent)

====
